---- MODULE Spec2Model ----
(***************************************************************************)
(* rustitude: a recursive, cancelable directory scanner (src/dir.rs), the  *)
(* worker thread that drives it and publishes snapshots to the druid event *)
(* sink, and the UI thread that handles the sink's commands (src/main.rs). *)
(*                                                                         *)
(* Paths are node numbers of a directory tree; node 1 is the tree's root.  *)
(* Sizes are small naturals (u64 in the source; no sum here comes near     *)
(* 2^64, so the additions are not reduced modulo 2^64).                    *)
(***************************************************************************)
EXTENDS Integers, Sequences, FiniteSets, TLC

(***************************************************************************)
(* Bounds of the model.                                                    *)
(***************************************************************************)
\* user requests (F5 presses and clicks on the header) in one behaviour
MaxRequests == 1

\* the folder dialog offers the directories numbered up to MaxFolder
MaxFolder == 3

\* The worker publishes a progress snapshot every NOTIFY_INTERVAL recorded
\* directory events.  The source sets 300 (src/main.rs:244); the model scales
\* it to the size of the trees below.
NOTIFY_INTERVAL == 2

MAX_COUNT == 20
MAX_DEPTH == 10

(***************************************************************************)
(* The filesystem: a tree is a sequence of nodes, node i's parent is a     *)
(* lower-numbered directory, read_dir lists a directory's entries in       *)
(* ascending node order.                                                   *)
(***************************************************************************)
Dir(p) == [parent |-> p, isDir |-> TRUE, size |-> 0]
File(p, s) == [parent |-> p, isDir |-> FALSE, size |-> s]

\* root{A: 3 (file), dir B{C: 1 (file)}}, the scenario of the specification
TreeAB == << Dir(0), File(1, 3), Dir(1), File(3, 1) >>
\* root{A: 3, D: 1}: two files side by side
TreeFiles == << Dir(0), File(1, 3), File(1, 1) >>
\* root{dir{dir{file 2}, file 1}}: two levels of nesting
TreeDeep == << Dir(0), Dir(1), Dir(2), File(3, 2), File(2, 1) >>
\* root{dir{file 1}, dir{}, dir{}, dir{}}: enough directories for two progress snapshots
TreeDirs == << Dir(0), Dir(1), File(2, 1), Dir(1), Dir(1), Dir(1) >>

\* root{F: 700, G: 1}: G's share of the circle is below MIN_SWEEP_SIZE
TreeTiny == << Dir(0), File(1, 700), File(1, 1) >>
\* root{dir{}}: nothing but an empty directory, every size is 0
TreeEmpty == << Dir(0), Dir(1) >>

\* root{dir{dir{}}}: empty directories, one inside the other
TreeHollow == << Dir(0), Dir(1), Dir(2) >>

Trees == {TreeAB, TreeFiles, TreeDeep, TreeDirs, TreeTiny, TreeEmpty, TreeHollow}

Nodes(t) == 1..Len(t)
Dirs(t) == {n \in Nodes(t) : t[n].isDir}
Folders(t) == {n \in Dirs(t) : n <= MaxFolder}

RECURSIVE EntriesFrom(_, _, _)
EntriesFrom(t, p, n) ==
  IF n > Len(t) THEN << >>
  ELSE IF t[n].parent = p THEN << n >> \o EntriesFrom(t, p, n + 1)
  ELSE EntriesFrom(t, p, n + 1)

\* fs::read_dir(path): the entries of directory p, in listing order
read_dir(t, p) == EntriesFrom(t, p, 1)

\* the I/O error injected in a behaviour: none, or one failing call
NoFault == [kind |-> "none", node |-> 0]
Faults(t) ==
  {NoFault}
    \cup {[kind |-> "read_dir", node |-> n] : n \in Dirs(t)}
    \cup {[kind |-> k, node |-> n] : k \in {"entry", "metadata"}, n \in Nodes(t) \ {1}}

(***************************************************************************)
(* Tree materializer (collect, src/main.rs:192-236).                       *)
(* A cache maps a directory path to the sequence of <<child path, size>>   *)
(* pairs pushed for it; a path is a key only once something was pushed.    *)
(***************************************************************************)
EmptyCache == << >>

\* cache.entry(parent).or_insert_with(Vec::new).push((path, size))
CachePush(cache, parent, item) ==
  IF parent \in DOMAIN cache
    THEN [cache EXCEPT ![parent] = Append(@, item)]
    ELSE [k \in DOMAIN cache \cup {parent} |->
            IF k = parent THEN << item >> ELSE cache[k]]

\* filtered.sort_by(|a, b| b.1.cmp(&a.1)): stable, descending by size.
\* The place of s[i] in the sorted vector: behind the larger elements and
\* behind the equal ones that come before it in s.
SortedPlace(s, i) ==
  Cardinality({j \in 1..Len(s) : s[j][2] > s[i][2] \/ (s[j][2] = s[i][2] /\ j <= i)})

SortBySizeDesc(s) ==
  [r \in 1..Len(s) |-> s[CHOOSE i \in 1..Len(s) : SortedPlace(s, i) = r]]

Min(a, b) == IF a <= b THEN a ELSE b

\* collect(path, cache, count, depth); p.is_dir() asks the filesystem t
collect(t, path, cache, count, depth) ==
  LET at[p \in Nodes(t), d \in 0..(MAX_DEPTH + 1)] ==
        IF d > MAX_DEPTH THEN << >>
        ELSE IF p \notin DOMAIN cache THEN << >>
        ELSE
          LET filtered == SortBySizeDesc(cache[p])
              taken == SubSeq(filtered, 1, Min(count, Len(filtered)))
              kept == SelectSeq(taken, LAMBDA v : v[1] # p)
          IN [i \in 1..Len(kept) |->
                [path |-> kept[i][1],
                 size |-> kept[i][2],
                 children |-> IF t[kept[i][1]].isDir
                                THEN at[kept[i][1], d + 1]
                                ELSE << >>]]
  IN at[path, depth]

\* Entry { path: start, size: total, children: collect(start, &cache, MAX_COUNT, 0) }
SnapshotWithoutTotal(t, start, total, cache) ==
  [path |-> start, size |-> 0, children |-> collect(t, start, cache, MAX_COUNT, 0)]
Snapshot(t, start, total, cache) ==
  [path |-> start, size |-> total, children |-> collect(t, start, cache, MAX_COUNT, 0)]

(***************************************************************************)
(* Sunburst layout (Chart::refresh_segments, create_segments_recursive,    *)
(* src/main.rs:415-465).  Angles are f64 in the source; here an angle is   *)
(* an exact fraction n/d of the full circle (END = 2*pi is 1/1), or one of *)
(* the f64 specials that a division by a zero size produces.               *)
(***************************************************************************)
RECURSIVE GCD(_, _)
GCD(a, b) == IF b = 0 THEN a ELSE GCD(b, a % b)

Fin(n, d) == LET g == GCD(n, d) IN [k |-> "fin", n |-> n \div g, d |-> d \div g]
NaN == [k |-> "nan", n |-> 0, d |-> 1]
Inf == [k |-> "inf", n |-> 0, d |-> 1]
NegInf == [k |-> "ninf", n |-> 0, d |-> 1]

\* a as f64 / b as f64, for sizes a and b
FDiv(a, b) == IF b # 0 THEN Fin(a, b) ELSE IF a = 0 THEN NaN ELSE Inf

FMul(x, y) ==
  IF x.k = "nan" \/ y.k = "nan" THEN NaN
  ELSE IF x.k = "fin" /\ y.k = "fin" THEN Fin(x.n * y.n, x.d * y.d)
  ELSE IF (x.k = "fin" /\ x.n = 0) \/ (y.k = "fin" /\ y.n = 0) THEN NaN
  ELSE IF (x.k = "ninf") # (y.k = "ninf") THEN NegInf
  ELSE Inf

FAdd(x, y) ==
  IF x.k = "nan" \/ y.k = "nan" THEN NaN
  ELSE IF x.k = "fin" /\ y.k = "fin" THEN Fin(x.n * y.d + y.n * x.d, x.d * y.d)
  ELSE IF x.k = "fin" THEN y
  ELSE IF y.k = "fin" \/ y.k = x.k THEN x
  ELSE NaN

\* x - y, for y <= x when both are finite (an arc's end is never before its start)
FSub(x, y) ==
  IF x.k = "nan" \/ y.k = "nan" THEN NaN
  ELSE IF x.k = "fin" /\ y.k = "fin" THEN Fin(x.n * y.d - y.n * x.d, x.d * y.d)
  ELSE IF x.k = "fin" THEN (IF y.k = "inf" THEN NegInf ELSE Inf)
  ELSE IF y.k = "fin" \/ y.k # x.k THEN x
  ELSE NaN

\* f64 comparisons: false when a side is NaN
FEq(x, y) == x.k # "nan" /\ y.k # "nan" /\ x = y
FLe(x, y) ==
  /\ x.k # "nan" /\ y.k # "nan"
  /\ \/ x.k = "ninf"
     \/ y.k = "inf"
     \/ x.k = "fin" /\ y.k = "fin" /\ x.n * y.d <= y.n * x.d
FLt(x, y) == FLe(x, y) /\ x # y

\* sweep < MIN_SWEEP_SIZE, for MIN_SWEEP_SIZE = 0.01 radians (main.rs:34):
\* n/d of the circle is n/d * 2*pi radians, below 0.01 iff 200*pi*n < d;
\* pi is taken as 355/113, which decides every fraction the model produces.
BelowMinSweep(x) ==
  IF x.k = "fin" THEN 71000 * x.n < 113 * x.d
  ELSE x.k = "ninf"

OUTER == 60
INNER == 40
RING == 20
START == Fin(0, 1)
END == Fin(1, 1)

\* let sweep = v.size as f64 / total as f64 * (end - start), for child v of entry
Sweep(entry, v, start, end) == FMul(FDiv(v.size, entry.size), FSub(end, start))

\* pos after one turn of the loop: the `continue` of a filtered child
\* (main.rs:437-439) leaves it, `pos += sweep` (main.rs:461) moves it
PosStuck(pos, sweep) == pos
NextPos(pos, sweep) == IF BelowMinSweep(sweep) THEN pos ELSE FAdd(pos, sweep)

RECURSIVE create_segments_recursive(_, _, _, _, _, _)
RECURSIVE SegmentsFrom(_, _, _, _, _, _, _, _)

\* the `for v in entry.children.iter()` loop from child k on, at angle pos
SegmentsFrom(t, entry, outer, inner, start, end, k, pos) ==
  IF k > Len(entry.children) THEN << >>
  ELSE
    LET v == entry.children[k]
        sweep == Sweep(entry, v, start, end)
    IN IF BelowMinSweep(sweep)
         THEN SegmentsFrom(t, entry, outer, inner, start, end, k + 1, NextPos(pos, sweep))
         ELSE << [entry |-> v, is_dir |-> t[v.path].isDir,
                  outer |-> outer, inner |-> inner, start |-> pos, sweep |-> sweep] >>
              \o (IF v.children # << >>
                    THEN create_segments_recursive(t, v, outer + RING, inner + RING,
                                                   pos, FAdd(pos, sweep))
                    ELSE << >>)
              \o SegmentsFrom(t, entry, outer, inner, start, end, k + 1, NextPos(pos, sweep))

\* `pos` when the loop over entry.children reaches child k (or has ended, k = Len + 1)
RECURSIVE PosAt(_, _, _, _)
PosAt(entry, start, end, k) ==
  IF k = 1 THEN start
  ELSE NextPos(PosAt(entry, start, end, k - 1),
               Sweep(entry, entry.children[k - 1], start, end))

create_segments_recursive(t, entry, outer, inner, start, end) ==
  SegmentsFrom(t, entry, outer, inner, start, end, 1, start)

refresh_segments(t, entry) == create_segments_recursive(t, entry, OUTER, INNER, START, END)

(***************************************************************************)
(* State.                                                                  *)
(***************************************************************************)
VARIABLES
  tree,     \* the directory tree on disk
  fault,    \* the filesystem call that fails, if any
  w,        \* the worker threads, by scan number (1 = the first scan)
  queue,    \* commands submitted to the druid event sink, not yet handled
  updater,  \* Updater { handle, sender }
  data,     \* AppState
  chart,    \* Chart
  ui,       \* the UI thread: what it is doing, and whether WidgetAdded came
  dialogs,  \* folder-dialog threads, each with the current_dir it captured
  nreq,     \* user requests so far
  handled,  \* the command the UI thread handled last, and the scan then current
  call      \* a call of collect on its own: its arguments and what it returned

vars == << tree, fault, w, queue, updater, data, chart, ui, dialogs, nreq, handled, call >>

Scans == 1..(MaxRequests + 1)

\* Result<(u64, bool), Error>
NoRet == [tag |-> "none", total |-> 0, full |-> FALSE, err |-> NoFault]
Ok(total, full) == [tag |-> "ok", total |-> total, full |-> full, err |-> NoFault]
Err(e) == [tag |-> "err", total |-> 0, full |-> FALSE, err |-> e]

\* one activation of get_directory_size_recursive_impl
Frame(path) == [path |-> path, total |-> 0, rest |-> << >>, entry |-> 0, size |-> 0]

Unborn ==
  [pc |-> "unborn", start |-> 0, stack |-> << >>, canceled |-> FALSE,
   ret |-> NoRet, result |-> NoRet, total |-> 0, count |-> 0,
   cache |-> EmptyCache, rx |-> << >>,
   events |-> << >>, pubs |-> << >>, cancelSeen |-> FALSE]

\* the thread spawned by start_worker, about to read the scan root
Spawned(path) == [Unborn EXCEPT !.pc = "read_dir", !.start = path, !.stack = << Frame(path) >>]

Alive(i) == w[i].pc \notin {"unborn", "done"}
Started == Cardinality({i \in Scans : w[i].pc # "unborn"})

Cmd(kind, scan, val) == [kind |-> kind, scan |-> scan, val |-> val]

\* sink.submit_command never waits for the UI thread
SubmitBlocksWhenBusy(q) == Len(q) = 0
SubmitReady(q) == TRUE

Top(i) == w[i].stack[Len(w[i].stack)]
Pop(st) == SubSeq(st, 1, Len(st) - 1)
SetTop(st, f) == [st EXCEPT ![Len(st)] = f]

\* return v from the innermost activation to its caller
Return(i, v) == [w[i] EXCEPT !.stack = Pop(@), !.ret = v, !.pc = "ret"]

UIVars == << updater, data, chart, ui, dialogs, nreq, handled >>

(***************************************************************************)
(* The scanner (src/dir.rs), run by worker i.                              *)
(***************************************************************************)
\* let dir = fs::read_dir(path)?;
ReadDir(i) ==
  /\ w[i].pc = "read_dir"
  /\ LET f == Top(i) IN
       w' = [w EXCEPT ![i] =
               IF fault = [kind |-> "read_dir", node |-> f.path]
                 THEN Return(i, Err(fault))
                 ELSE [w[i] EXCEPT !.stack = SetTop(@, [f EXCEPT !.rest = read_dir(tree, f.path)]),
                                   !.pc = "next"]]
  /\ UNCHANGED << tree, fault, call, queue, UIVars >>

\* total += size (dir.rs:31)
AddSizeForgotten(total, size) == total
AddSize(total, size) == total + size

\* the next turn of `for entry in dir`, up to the callback or the recursive call
NextEntry(i) ==
  /\ w[i].pc = "next"
  /\ LET f == Top(i)
         e == Head(f.rest)
     IN
       w' = [w EXCEPT ![i] =
               IF f.rest = << >> THEN Return(i, Ok(f.total, TRUE))
               ELSE IF fault.node = e /\ fault.kind \in {"entry", "metadata"}
                 THEN Return(i, Err(fault))
               ELSE IF tree[e].isDir
                 THEN [w[i] EXCEPT
                         !.stack = Append(SetTop(@, [f EXCEPT !.rest = Tail(@), !.entry = e]),
                                          Frame(e)),
                         !.pc = "read_dir"]
               ELSE [w[i] EXCEPT
                       !.stack = SetTop(@, [f EXCEPT !.rest = Tail(@), !.entry = e,
                                                     !.size = tree[e].size,
                                                     !.total = AddSize(@, tree[e].size)]),
                       !.pc = "cb"]]
  /\ UNCHANGED << tree, fault, call, queue, UIVars >>

\* the `?` after the recursive call (dir.rs:21)
ErrSwallowed(r) == FALSE
IsErr(r) == r.tag = "err"

\* *canceled = !result.1 (dir.rs:22)
CancelNotPropagated(r) == FALSE
SubdirCanceled(r) == ~r.full

\* the recursive call, or the whole scan, has returned w[i].ret
AfterCall(i) ==
  /\ w[i].pc = "ret"
  /\ LET r == w[i].ret IN
       w' = [w EXCEPT ![i] =
               IF w[i].stack = << >>
                 THEN [w[i] EXCEPT !.result = r, !.pc = "final_entry"]
               ELSE IF IsErr(r) THEN Return(i, r)
               ELSE IF SubdirCanceled(r)
                 THEN [Return(i, Ok(Top(i).total, FALSE)) EXCEPT !.canceled = TRUE]
               ELSE [w[i] EXCEPT
                       !.canceled = FALSE,
                       !.stack = SetTop(@, [Top(i) EXCEPT !.size = r.total,
                                                          !.total = AddSize(@, r.total)]),
                       !.pc = "cb"]]
  /\ UNCHANGED << tree, fault, call, queue, UIVars >>

(***************************************************************************)
(* The worker's scan callback (src/main.rs:252-287), called by the scanner *)
(* at dir.rs:33 with (path, entry.path(), is_dir, size).                   *)
(***************************************************************************)
\* first argument of cb: the path of the directory being listed (dir.rs:34)
CbParentIsEntry(f) == f.entry
CbParent(f) == f.path

\* rx.try_recv().unwrap_or(false)
TryRecv(rx) == IF rx = << >> THEN FALSE ELSE Head(rx)
AfterRecv(rx) == IF rx = << >> THEN rx ELSE Tail(rx)

\* `total += size` stands in the file branch only (main.rs:277); a directory
\* event leaves the running total as it is
TotalCountingDirs(total, is_dir, size) == total + size
RunningTotal(total, is_dir, size) == IF is_dir THEN total ELSE total + size

Callback(i) ==
  /\ w[i].pc = "cb"
  /\ LET f == Top(i)
         parent == CbParent(f)
         path == f.entry
         is_dir == tree[f.entry].isDir
         size == f.size
         \* the invocation, and whether the callback went on to record it
         ev == [parent |-> parent, path |-> path, is_dir |-> is_dir, size |-> size,
                recorded |-> ~TryRecv(w[i].rx)]
         got == [w[i] EXCEPT !.rx = AfterRecv(@), !.events = Append(@, ev)]
         pushed == CachePush(w[i].cache, parent, << path, size >>)
     IN
       w' = [w EXCEPT ![i] =
               IF TryRecv(w[i].rx)
                 \* return Ok(false); dir.rs:39 then leaves the loop
                 THEN [[got EXCEPT !.stack = Pop(@), !.ret = Ok(f.total, FALSE), !.pc = "ret"]
                         EXCEPT !.canceled = TRUE, !.cancelSeen = TRUE]
               ELSE IF is_dir
                 THEN [got EXCEPT
                         !.total = RunningTotal(@, is_dir, size),
                         !.cache = pushed,
                         !.count = @ + 1,
                         !.canceled = FALSE,
                         !.pc = IF (w[i].count + 1) % NOTIFY_INTERVAL = 0
                                  THEN "pub_entry" ELSE "next"]
               ELSE [got EXCEPT
                       !.total = RunningTotal(@, is_dir, size),
                       !.cache = pushed,
                       !.canceled = FALSE,
                       !.pc = "next"]]
  /\ UNCHANGED << tree, fault, call, queue, UIVars >>

\* what a publication was built from, kept beside the command for the record
Pub(cmd, i) == [cmd |-> cmd, cache |-> w[i].cache, total |-> w[i].total]

Submit(i, cmd, pc) ==
  /\ SubmitReady(queue)
  /\ queue' = Append(queue, cmd)
  /\ w' = [w EXCEPT ![i] = [w[i] EXCEPT !.pubs = Append(@, Pub(cmd, i)), !.pc = pc]]
  /\ UNCHANGED << tree, fault, call, UIVars >>

\* progress: sink.submit_command(SET_ENTRY, ...) (main.rs:267-273)
PubEntry(i) ==
  /\ w[i].pc = "pub_entry"
  /\ Submit(i, Cmd("SET_ENTRY", i, Snapshot(tree, w[i].start, w[i].total, w[i].cache)),
            "pub_scanning")

\* progress: sink.submit_command(SET_SCANNING, path) (main.rs:274), then Ok(true)
PubScanning(i) ==
  /\ w[i].pc = "pub_scanning"
  /\ Submit(i, Cmd("SET_SCANNING", i, Top(i).entry), "next")

\* the final snapshot (main.rs:292-298)
FinalSnapshotEmpty(i) == Snapshot(tree, w[i].start, 0, EmptyCache)
FinalSnapshot(i) == Snapshot(tree, w[i].start, w[i].total, w[i].cache)

FinalEntry(i) ==
  /\ w[i].pc = "final_entry"
  /\ Submit(i, Cmd("SET_ENTRY", i, FinalSnapshot(i)), "final_finish")

\* sink.submit_command(NOTIFY_SCAN_FINISH, ()) (main.rs:299), then `if let Err(err) = result`
FinalFinish(i) ==
  /\ w[i].pc = "final_finish"
  /\ Submit(i, Cmd("NOTIFY_SCAN_FINISH", i, 0),
            IF w[i].result.tag = "err" THEN "final_error" ELSE "done")

\* format!("Error: {}", err.to_string())
ErrorText(e) == << "Error: ", e >>

\* sink.submit_command(SET_ERROR, ...) (main.rs:303-310); the thread ends
FinalError(i) ==
  /\ w[i].pc = "final_error"
  /\ Submit(i, Cmd("SET_ERROR", i, ErrorText(w[i].result.err)), "done")

WorkerStep(i) ==
  \/ ReadDir(i)
  \/ NextEntry(i)
  \/ AfterCall(i)
  \/ Callback(i)
  \/ PubEntry(i)
  \/ PubScanning(i)
  \/ FinalEntry(i)
  \/ FinalFinish(i)
  \/ FinalError(i)

(***************************************************************************)
(* The UI thread.  A command taken from the sink goes to Delegate::command *)
(* first, then to the widgets in the order ui_builder added them: Updater, *)
(* then Chart.                                                             *)
(***************************************************************************)
None == << >>
Some(x) == << x >>

\* Delegate::command (main.rs:120-145)
DelegateCommand(cmd, d) ==
  CASE cmd.kind = "REQUEST_SCAN" ->
         [d EXCEPT !.current_dir = cmd.val, !.header = ""]
    [] cmd.kind = "SET_ENTRY" ->
         [d EXCEPT !.entry = cmd.val]
    [] cmd.kind = "SET_SCANNING" ->
         [d EXCEPT !.scanning_dir = Some(cmd.val), !.status = << "Scanning ", cmd.val >>]
    [] cmd.kind = "NOTIFY_SCAN_FINISH" ->
         [d EXCEPT !.scanning_dir = None,
                   !.status = << "Scan of ", d.current_dir >>,
                   !.header = "Press F5 to refresh"]
    [] cmd.kind = "SET_ERROR" ->
         [d EXCEPT !.error = cmd.val, !.status = << "Error ", cmd.val >>]
    [] OTHER -> d

\* Chart::format_size (main.rs:475-494): the value in hundredths of the unit,
\* and the unit.  The sizes of the model stay below 2^31, so the TB and PB
\* branches are out of their reach.
KB == 1024
MB == 1048576
GB == 1073741824
Hundredths(value, unit) == ((value \div unit) * 100) + (((value % unit) * 100 + unit \div 2) \div unit)
format_size(value) ==
  IF value < MB THEN << Hundredths(value, KB), "KB" >>
  ELSE IF value < GB THEN << Hundredths(value, MB), "MB" >>
  ELSE << Hundredths(value, GB), "GB" >>

\* the cursor, as its offset from the center of the chart.  Chart::new puts it
\* at the widget's corner (0, 0), half a 960 x 540 window away from the center.
Pt(x, y) == [x |-> x, y |-> y]
Origin == Pt(-480, -250)

\* Chart::event, Event::Command (main.rs:564-577)
ChartCommand(cmd, c) ==
  CASE cmd.kind = "SET_ENTRY" ->
         [c EXCEPT !.segments = refresh_segments(tree, cmd.val),
                   !.size = format_size(cmd.val.size)]
    [] cmd.kind = "REQUEST_SCAN" ->
         [c EXCEPT !.segments = << >>, !.expand = << >>, !.size = << >>,
                   !.hovered_entry = None, !.accept = FALSE]
    [] cmd.kind = "NOTIFY_SCAN_FINISH" ->
         [c EXCEPT !.accept = TRUE]
    [] OTHER -> c

\* Updater::start_worker: a new thread, its handle and the cancel sender kept
NextScan == Started + 1
StartWorker(path) ==
  /\ NextScan \in Scans
  /\ w' = [w EXCEPT ![NextScan] = Spawned(path)]
  /\ updater' = [handle |-> NextScan, sender |-> NextScan]

\* Updater::lifecycle, LifeCycle::WidgetAdded (main.rs:356-360)
WidgetAdded ==
  /\ ~ui.added
  /\ ui' = [ui EXCEPT !.added = TRUE]
  /\ StartWorker(data.current_dir)
  /\ UNCHANGED << tree, fault, call, queue, data, chart, dialogs, nreq, handled >>

\* Delegate::event, F5 (main.rs:108-114)
KeyF5 ==
  /\ ui.added /\ ui.pc = "idle"
  /\ nreq < MaxRequests
  /\ nreq' = nreq + 1
  /\ queue' = Append(queue, Cmd("REQUEST_REFRESH", 0, 0))
  /\ UNCHANGED << tree, fault, call, w, updater, data, chart, ui, dialogs, handled >>

\* the header label's on_click (main.rs:714-720)
ClickHeader ==
  /\ ui.added /\ ui.pc = "idle"
  /\ nreq < MaxRequests
  /\ nreq' = nreq + 1
  /\ queue' = Append(queue, Cmd("REQUEST_OPEN_DIALOG", 0, 0))
  /\ UNCHANGED << tree, fault, call, w, updater, data, chart, ui, dialogs, handled >>

\* the thread spawned for REQUEST_OPEN_DIALOG (main.rs:333-342): the dialog
\* returns nothing or a directory, submitted unless it is the captured one
DialogResult ==
  \E k \in 1..Len(dialogs) :
    /\ dialogs' = SubSeq(dialogs, 1, k - 1) \o SubSeq(dialogs, k + 1, Len(dialogs))
    /\ \/ UNCHANGED queue
       \/ \E dir \in Folders(tree) :
            /\ dir # dialogs[k]
            /\ queue' = Append(queue, Cmd("REQUEST_SCAN", 0, dir))
    /\ UNCHANGED << tree, fault, call, w, updater, data, chart, ui, nreq, handled >>

IsRequest(cmd) == cmd.kind \in {"REQUEST_SCAN", "REQUEST_REFRESH"}

\* x.join() (main.rs:185) returns once the thread has ended
JoinSkipped(h) == TRUE
Joined(h) == w[h].pc = "done"

\* The UI thread takes the next command.  For a scan request with a worker
\* handle this runs up to the join of stop_worker (main.rs:179-185): the
\* cancel signal is sent, which fails when the worker has dropped its receiver.
HandleCommand ==
  /\ ui.pc = "idle"
  /\ queue # << >>
  /\ LET cmd == Head(queue)
         d == DelegateCommand(cmd, data)
     IN
       /\ queue' = Tail(queue)
       /\ handled' = [kind |-> cmd.kind, scan |-> cmd.scan, gen |-> Started]
       /\ data' = d
       /\ IF IsRequest(cmd) /\ updater.handle # 0
            THEN /\ ui' = [ui EXCEPT !.pc = "joining", !.cmd = cmd, !.joinee = updater.handle]
                 /\ updater' = [handle |-> 0, sender |-> 0]
                 /\ w' = [w EXCEPT ![updater.sender] =
                            IF w[updater.sender].pc = "done" THEN @
                            ELSE [@ EXCEPT !.rx = Append(@, TRUE)]]
                 /\ UNCHANGED << chart, dialogs >>
          ELSE IF IsRequest(cmd)
            THEN /\ StartWorker(d.current_dir)
                 /\ chart' = ChartCommand(cmd, chart)
                 /\ UNCHANGED << ui, dialogs >>
          ELSE /\ chart' = ChartCommand(cmd, chart)
               /\ dialogs' = IF cmd.kind = "REQUEST_OPEN_DIALOG"
                               THEN Append(dialogs, data.current_dir) ELSE dialogs
               /\ UNCHANGED << w, updater, ui >>
  /\ UNCHANGED << tree, fault, call, nreq >>

\* The join returns; Updater::event goes on to start_worker (main.rs:324, 329),
\* and the command reaches Chart::event.
JoinReturn ==
  /\ ui.pc = "joining"
  /\ Joined(ui.joinee)
  /\ StartWorker(data.current_dir)
  /\ chart' = ChartCommand(ui.cmd, chart)
  /\ ui' = [ui EXCEPT !.pc = "idle", !.cmd = Cmd("", 0, 0), !.joinee = 0]
  /\ UNCHANGED << tree, fault, call, queue, data, dialogs, nreq, handled >>

(***************************************************************************)
(* The pointer: Chart::event for MouseMove and MouseUp, and Chart::paint,  *)
(* which runs the hit test on the cursor (src/main.rs:500-563, 610-703).   *)
(***************************************************************************)
\* clicks on the chart in one behaviour
MaxClicks == 2

CENTER_RADIUS == 40

\* where the pointer goes: the center, and the first ring at angle 0
CursorPoints == {Pt(0, 0), Pt(50, 0)}

\* dy.atan2(dx), plus 2*pi when negative (main.rs:664-668), as a fraction of
\* the circle: exact on the axes and the diagonals; the corner lies at 3.62 rad
Angle(p) ==
  IF p.y = 0 THEN (IF p.x >= 0 THEN Fin(0, 1) ELSE Fin(1, 2))
  ELSE IF p.x = 0 THEN (IF p.y > 0 THEN Fin(1, 4) ELSE Fin(3, 4))
  ELSE IF p.x = p.y THEN (IF p.x > 0 THEN Fin(1, 8) ELSE Fin(5, 8))
  ELSE IF p.x = -p.y THEN (IF p.x > 0 THEN Fin(7, 8) ELSE Fin(3, 8))
  ELSE Fin(23, 40)

\* rx * rx + ry * ry
Hypot2(p) == p.x * p.x + p.y * p.y

\* circle_path.contains(self.cursor), for Circle::new(center, 40.0)
InCenter(p) == Hypot2(p) <= CENTER_RADIUS * CENTER_RADIUS

\* is_hovered (main.rs:682-685)
IsHoveredClosed(v, p) ==
  /\ Hypot2(p) <= v.outer * v.outer
  /\ Hypot2(p) > v.inner * v.inner
  /\ FLe(v.start, Angle(p))
  /\ FLe(Angle(p), FAdd(v.start, v.sweep))
IsHovered(v, p) ==
  /\ Hypot2(p) <= v.outer * v.outer
  /\ Hypot2(p) > v.inner * v.inner
  /\ FLe(v.start, Angle(p))
  /\ FLt(Angle(p), FAdd(v.start, v.sweep))

\* the segments the test holds for
Hits(segments, p) == {i \in 1..Len(segments) : IsHovered(segments[i], p)}

\* self.expand.front(), or the scan root: the entry on display
Front(c, d) == IF c.expand # << >> THEN Head(c.expand) ELSE d.entry

\* Chart::paint: hovered_center and hovered_entry from the cursor; the last
\* segment the test holds for is the hovered one
Paint ==
  /\ ui.added /\ ui.pc = "idle"
  /\ LET hits == Hits(chart.segments, chart.cursor)
         last == CHOOSE i \in hits : \A j \in hits : j <= i
     IN chart' = [chart EXCEPT
                    !.hovered_center = InCenter(chart.cursor),
                    !.hovered_entry =
                      IF hits # {} THEN Some(chart.segments[last].entry)
                      ELSE IF InCenter(chart.cursor) THEN Some(Front(chart, data))
                      ELSE None]
  /\ UNCHANGED << tree, fault, call, w, queue, updater, data, ui, dialogs, nreq, handled >>

\* Chart::event, Event::MouseMove (main.rs:527-563)
MouseMove ==
  /\ ui.added /\ ui.pc = "idle"
  /\ \E p \in CursorPoints :
       LET front == Front(chart, data)
           where == IF chart.expand # << >> THEN front.path ELSE data.current_dir
       IN
         /\ p # chart.cursor
         /\ IF ~chart.accept
              THEN /\ chart' = [chart EXCEPT !.cursor = p]
                   /\ data' = data
            ELSE IF chart.hovered_center
              THEN /\ chart' = [chart EXCEPT !.cursor = p, !.size = format_size(front.size)]
                   /\ data' = [data EXCEPT
                                 !.expand = IF chart.expand # << >>
                                              THEN "Right-click to go back" ELSE "",
                                 !.status = << "Click to locate ", where >>]
            ELSE IF chart.hovered_entry # None
              THEN /\ chart' = [chart EXCEPT !.cursor = p,
                                             !.size = format_size(chart.hovered_entry[1].size)]
                   /\ data' = [data EXCEPT
                                 !.expand = "Right-click to expand",
                                 !.status = << "Click to locate ", chart.hovered_entry[1].path >>]
            ELSE /\ chart' = [chart EXCEPT
                                !.cursor = p,
                                !.size = IF data.scanning_dir = None
                                           THEN format_size(front.size) ELSE @]
                 /\ data' = [data EXCEPT
                               !.expand = "",
                               !.status = IF data.scanning_dir = None
                                            THEN << "Scan of ", where >> ELSE @]
  /\ UNCHANGED << tree, fault, call, w, queue, updater, ui, dialogs, nreq, handled >>

\* VecDeque::push_front, pop_front
push_back(s, e) == Append(s, e)
push_front(s, e) == << e >> \o s
pop_front(s) == IF s = << >> THEN s ELSE Tail(s)

\* Chart::event, Event::MouseUp (main.rs:500-526).  The left button opens the
\* hovered path with the system's handler and leaves the chart as it is; the
\* right button goes back on the center and expands a hovered segment.
MouseUp ==
  /\ ui.added /\ ui.pc = "idle"
  /\ ui.clicks < MaxClicks
  /\ ui' = [ui EXCEPT !.clicks = @ + 1]
  /\ \E button \in {"left", "right"} :
       chart' =
         IF ~chart.accept \/ button = "left" THEN chart
         ELSE IF chart.hovered_center
           THEN LET popped == [chart EXCEPT !.expand = pop_front(@)]
                IN [popped EXCEPT !.segments = refresh_segments(tree, Front(popped, data))]
         ELSE IF chart.hovered_entry # None
           THEN LET pushed == [chart EXCEPT !.expand = push_front(@, chart.hovered_entry[1])]
                IN [pushed EXCEPT !.segments = refresh_segments(tree, Head(pushed.expand))]
         ELSE chart
  /\ UNCHANGED << tree, fault, call, w, queue, updater, data, dialogs, nreq, handled >>

(***************************************************************************)
(* The specification.                                                      *)
(***************************************************************************)
\* no call of collect on its own
NoCall == [pc |-> "none", cache |-> EmptyCache, count |-> 0, ret |-> << >>]

\* AppState as main builds it (main.rs:76-89), Chart::new, Updater::new
Constructed ==
  /\ w = [i \in Scans |-> Unborn]
  /\ queue = << >>
  /\ updater = [handle |-> 0, sender |-> 0]
  /\ data = [current_dir |-> 1,
             entry |-> [path |-> 0, size |-> 0, children |-> << >>],
             scanning_dir |-> None, error |-> << >>, header |-> "", status |-> << >>,
             expand |-> ""]
  /\ chart = [segments |-> << >>, expand |-> << >>, accept |-> FALSE,
              hovered_entry |-> None, hovered_center |-> FALSE,
              cursor |-> Origin, size |-> << >>]
  /\ ui = [pc |-> "idle", cmd |-> Cmd("", 0, 0), joinee |-> 0, added |-> FALSE,
           clicks |-> 0]
  /\ dialogs = << >>
  /\ nreq = 0
  /\ handled = [kind |-> "", scan |-> 0, gen |-> 0]

Init ==
  /\ tree \in Trees
  /\ fault \in Faults(tree)
  /\ call = NoCall
  /\ Constructed

Worker == \E i \in Scans : WorkerStep(i)

Next ==
  \/ WidgetAdded
  \/ KeyF5
  \/ ClickHeader
  \/ DialogResult
  \/ HandleCommand
  \/ JoinReturn
  \/ Worker

Spec == Init /\ [][Next]_vars

\* the worker thread is scheduled while it can run, and a join whose thread
\* has ended returns; fewer trees keep the liveness check small
InitFair == Init /\ tree \in {TreeFiles, TreeDeep}
FairSpec == InitFair /\ [][Next]_vars /\ WF_vars(Worker) /\ WF_vars(JoinReturn)

\* the application with its pointer events, on the trees with nested
\* directories, scanned without an I/O error or failing at the scan root
UITrees == {TreeAB, TreeDeep}
InitUI ==
  /\ Init
  /\ tree \in UITrees
  /\ fault \in {NoFault, [kind |-> "read_dir", node |-> 1]}
NextUI == Next \/ MouseMove \/ MouseUp \/ Paint
UISpec == InitUI /\ [][NextUI]_vars

(***************************************************************************)
(* collect on its own, over caches the scanner would not produce as well:  *)
(* more entries than the cap, entries naming their own parent, data deeper *)
(* than MAX_DEPTH.                                                         *)
(***************************************************************************)
\* entries of one cache list in the calls below
MaxEntries == 3
\* the largest `count` passed
MaxTake == 2
\* the longest chain of nested directories in a cache
MaxChain == 13

\* root{dir 2{file 5, file 6}, file 3, file 4}; the sizes come from the cache
MatTree == << Dir(0), Dir(1), File(1, 0), File(1, 0), File(2, 0), File(2, 0) >>

\* the lists for the root: up to MaxEntries of (path, size), the root's own
\* path among the paths
SeqsUpTo(S, n) == UNION {[1..m -> S] : m \in 0..n}
RootLists == SeqsUpTo({<< p, z >> : p \in 1..4, z \in 1..2}, MaxEntries)

\* the list of directory 2, when it has one: itself first among the largest
SubList == << << 5, 1 >>, << 2, 2 >>, << 6, 2 >> >>

MatCaches ==
  {[k \in {1} |-> r] : r \in RootLists \ {<< >>}}
    \cup {[k \in {1, 2} |-> IF k = 1 THEN r ELSE SubList] : r \in RootLists \ {<< >>}}

\* a chain of n directories, each the only entry of the one before
ChainTree(n) == [i \in 1..n |-> Dir(i - 1)]
ChainCache(n) == [i \in 1..(n - 1) |-> << << i + 1, 1 >> >>]

MatInit ==
  /\ \/ /\ tree = MatTree
        /\ \E c \in MatCaches, k \in 1..MaxTake :
             call = [pc |-> "args", cache |-> c, count |-> k, ret |-> << >>]
     \/ \E n \in 2..MaxChain :
          /\ tree = ChainTree(n)
          /\ call = [pc |-> "args", cache |-> ChainCache(n), count |-> MAX_COUNT, ret |-> << >>]
  /\ fault = NoFault
  /\ Constructed

\* collect(start, &cache, count, 0), start being directory 1
CallCollect ==
  /\ call.pc = "args"
  /\ call' = [call EXCEPT !.pc = "ret", !.ret = collect(tree, 1, call.cache, call.count, 0)]
  /\ UNCHANGED << tree, fault, w, queue, updater, data, chart, ui, dialogs, nreq, handled >>

MatSpec == MatInit /\ [][CallCollect]_vars

(***************************************************************************)
(* Vocabulary of the properties.                                           *)
(***************************************************************************)
Finished(i) == w[i].pc \in {"final_entry", "final_finish", "final_error", "done"}

\* n lies strictly below directory a
RECURSIVE IsUnder(_, _, _)
IsUnder(t, n, a) ==
  /\ t[n].parent # 0
  /\ \/ t[n].parent = a
     \/ IsUnder(t, t[n].parent, a)

\* the sum of the sizes of the files below a, over the nodes from n on
RECURSIVE FileSizesFrom(_, _, _)
FileSizesFrom(t, a, n) ==
  IF n > Len(t) THEN 0
  ELSE (IF ~t[n].isDir /\ IsUnder(t, n, a) THEN t[n].size ELSE 0) + FileSizesFrom(t, a, n + 1)

SubtreeSize(t, a) == FileSizesFrom(t, a, 1)

\* the sum of the sizes of the file events the callback recorded
RECURSIVE RecordedFileSizes(_)
RecordedFileSizes(evs) ==
  IF evs = << >> THEN 0
  ELSE (IF Head(evs).recorded /\ ~Head(evs).is_dir THEN Head(evs).size ELSE 0)
       + RecordedFileSizes(Tail(evs))

\* the positions of worker i's publications of one kind
PubsOf(i, kind) == {k \in 1..Len(w[i].pubs) : w[i].pubs[k].cmd.kind = kind}

IsPrefix(a, b) == Len(a) <= Len(b) /\ SubSeq(b, 1, Len(a)) = a
CacheLeq(c1, c2) ==
  \A k \in DOMAIN c1 : k \in DOMAIN c2 /\ IsPrefix(c1[k], c2[k])

(***************************************************************************)
(* Claims.                                                                 *)
(***************************************************************************)
\* C1: no publication of a worker (SET_ENTRY, SET_SCANNING, NOTIFY_SCAN_FINISH,
\* SET_ERROR) is handled by the UI thread after a newer scan has been started:
\* the command handled last, if a worker submitted it, came from the scan that
\* was the newest one when it was handled.
C1_NoStalePublicationHandled ==
  handled.scan # 0 => handled.scan = handled.gen

\* C2: at most one scan worker thread is alive, and a worker is started only
\* when every worker started before it has ended (stop_worker joined it).
C2_OneWorkerAlive ==
  /\ Cardinality({i \in Scans : Alive(i)}) <= 1
  /\ \A i, j \in Scans : i < j /\ w[j].pc # "unborn" => w[i].pc = "done"

\* a second scan runs after the first was canceled by stop_worker and joined
C2_Witness ==
  /\ Alive(2)
  /\ w[1].cancelSeen
  /\ w[1].pc = "done"

\* C3: the callback invocation that observes the cancel signal records nothing,
\* after it the callback is never invoked again and the cache and the running
\* total stay as they are, and the scan returns completed_fully = false.
C3_CancelStopsRecording ==
  /\ [][\A i \in Scans :
          w'[i].cancelSeen =>
            /\ w'[i].cache = w[i].cache
            /\ w'[i].total = w[i].total
            /\ w[i].cancelSeen => w'[i].events = w[i].events]_vars
  /\ [](\A i \in Scans :
          w[i].cancelSeen /\ Finished(i) =>
            w[i].result.tag = "ok" /\ ~w[i].result.full)

\* a scan canceled inside a subdirectory has returned
C3_Witness ==
  \E i \in Scans :
    /\ w[i].cancelSeen
    /\ w[i].pc = "done"
    /\ w[i].events[Len(w[i].events)].parent # w[i].start
    /\ w[i].cache # EmptyCache

\* C4: the total returned by a canceled scan is the sum of the sizes of the
\* files the worker recorded.
C4_PartialTotalIsRecordedSum ==
  \A i \in Scans :
    Finished(i) /\ w[i].result.tag = "ok" /\ ~w[i].result.full =>
      w[i].result.total = RecordedFileSizes(w[i].events)

\* C5: the size passed to the callback for a directory is the sum of the sizes
\* of the files below it, and a scan that completes returns the sum of the
\* sizes of all files below the scan root, with completed_fully = true.
C5_ExactSizes ==
  \A i \in Scans :
    /\ \A k \in 1..Len(w[i].events) :
         w[i].events[k].is_dir =>
           w[i].events[k].size = SubtreeSize(tree, w[i].events[k].path)
    /\ Finished(i) /\ ~w[i].cancelSeen /\ w[i].result.tag # "err" =>
         w[i].result = Ok(SubtreeSize(tree, w[i].start), TRUE)

\* a scan of nested directories with files has completed
C5_Witness ==
  \E i \in Scans :
    /\ w[i].result.tag = "ok" /\ w[i].result.full
    /\ w[i].result.total > 0
    /\ \E k \in 1..Len(w[i].events) :
         /\ w[i].events[k].is_dir
         /\ w[i].events[k].size > 0
         /\ w[i].events[k].parent # w[i].start

\* C6: a directory's event comes after the events of everything below it, no
\* entry gets two events, every event carries the path of the entry's parent,
\* and in a completed scan every entry below the scan root got its event.
C6_PostOrder ==
  \A i \in Scans :
    LET evs == w[i].events IN
      /\ \A k \in 1..Len(evs) :
           /\ evs[k].parent = tree[evs[k].path].parent
           /\ \A l \in 1..Len(evs) : l # k => evs[l].path # evs[k].path
           /\ evs[k].is_dir =>
                \A n \in Nodes(tree) :
                  IsUnder(tree, n, evs[k].path) =>
                    \E l \in 1..(k - 1) : evs[l].path = n
      /\ w[i].result.tag = "ok" /\ w[i].result.full =>
           {evs[k].path : k \in 1..Len(evs)} = {n \in Nodes(tree) : IsUnder(tree, n, w[i].start)}

\* a directory holding a directory holding a file got its event, last of the three
C6_Witness ==
  \E i \in Scans :
    \E k \in 1..Len(w[i].events) :
      \E n, m \in Nodes(tree) :
        /\ w[i].events[k].is_dir
        /\ tree[n].isDir /\ tree[n].parent = w[i].events[k].path
        /\ ~tree[m].isDir /\ tree[m].parent = n
        /\ w[i].result.full

\* C7: stop_worker returns: once the UI thread waits in the join, the joined
\* worker ends and the join completes; a worker that is alive can always take
\* its next step, whatever the UI thread has left in the sink.
C7_StopWorkerReturns ==
  /\ [](\A i \in Scans : Alive(i) => ENABLED WorkerStep(i))
  /\ \A i \in Scans :
       (ui.pc = "joining" /\ ui.joinee = i) ~> (ui.pc = "idle" /\ w[i].pc = "done")

\* stop_worker has returned and started the second scan, with publications of
\* the canceled first scan still in the sink
C7_Witness ==
  /\ ui.pc = "idle"
  /\ IsRequest(handled)
  /\ Alive(2)
  /\ w[1].cancelSeen
  /\ \E k \in 1..Len(queue) : queue[k].scan = 1

\* C8: in one scan every SET_ENTRY is built from a cache and a total that
\* contain those of the SET_ENTRYs before it; when the worker ends, its last
\* SET_ENTRY is the only one not followed by SET_SCANNING, it is the snapshot of
\* the final cache and total, and NOTIFY_SCAN_FINISH follows it, once.
C8_SnapshotOrder ==
  \A i \in Scans :
    LET P == w[i].pubs
        entries == PubsOf(i, "SET_ENTRY")
    IN
      /\ \A k, l \in entries :
           k < l => CacheLeq(P[k].cache, P[l].cache) /\ P[k].total <= P[l].total
      /\ \A k \in entries :
           P[k].cmd.val = Snapshot(tree, w[i].start, P[k].total, P[k].cache)
      /\ w[i].pc = "done" =>
           \E f \in entries :
             /\ \A k \in entries \ {f} : k < f /\ P[k + 1].cmd.kind = "SET_SCANNING"
             /\ P[f].cmd.val = Snapshot(tree, w[i].start, w[i].total, w[i].cache)
             /\ PubsOf(i, "NOTIFY_SCAN_FINISH") = {f + 1}

\* a scan has ended after two progress snapshots, the second with more in it,
\* and its final snapshot
C8_Witness ==
  \E i \in Scans :
    /\ w[i].pc = "done"
    /\ \E k, l, f \in PubsOf(i, "SET_ENTRY") :
         /\ k < l /\ l < f
         /\ w[i].pubs[k].cmd.val # w[i].pubs[l].cmd.val

\* C9: a scan that ended in an I/O error publishes no final SET_ENTRY and no
\* NOTIFY_SCAN_FINISH: every SET_ENTRY of it is a progress snapshot, followed
\* by its SET_SCANNING.
C9_NoFinalSnapshotAfterError ==
  \A i \in Scans :
    w[i].result.tag = "err" =>
      /\ PubsOf(i, "NOTIFY_SCAN_FINISH") = {}
      /\ \A k \in PubsOf(i, "SET_ENTRY") :
           k < Len(w[i].pubs) /\ w[i].pubs[k + 1].cmd.kind = "SET_SCANNING"

\* the failing call lies in the part of the tree that scan i walks
FaultInScan(i) ==
  \/ fault.kind = "read_dir" /\ fault.node = w[i].start
  \/ fault.kind # "none" /\ IsUnder(tree, fault.node, w[i].start)

\* C10: an I/O error ends the scan: once a call has returned the error, every
\* enclosing level returns the same error and the callback is not invoked
\* again; a scan that is not canceled hits the failing call and returns its
\* error; the worker publishes one SET_ERROR, carrying that error, for a scan
\* that returned an error and none otherwise.
C10_ErrorAbortsScan ==
  /\ [][\A i \in Scans :
          w[i].ret.tag = "err" =>
            /\ w'[i].ret = w[i].ret
            /\ w'[i].events = w[i].events
            /\ w'[i].cache = w[i].cache]_vars
  /\ [](\A i \in Scans :
          /\ Finished(i) /\ w[i].ret.tag = "err" => w[i].result = Err(fault)
          /\ Finished(i) /\ ~w[i].cancelSeen /\ FaultInScan(i) => w[i].result = Err(fault)
          /\ Cardinality(PubsOf(i, "SET_ERROR")) <= 1
          /\ w[i].pc = "done" =>
               IF w[i].result.tag = "err"
                 THEN /\ PubsOf(i, "SET_ERROR") = {Len(w[i].pubs)}
                      /\ w[i].pubs[Len(w[i].pubs)].cmd.val = ErrorText(fault)
                 ELSE PubsOf(i, "SET_ERROR") = {})

\* a scan has ended with the error of a call two levels below the scan root
C10_Witness ==
  \E i \in Scans :
    /\ w[i].pc = "done"
    /\ w[i].result.tag = "err"
    /\ IsUnder(tree, fault.node, w[i].start)
    /\ tree[fault.node].parent # w[i].start
    /\ w[i].events # << >>
    /\ Cardinality(PubsOf(i, "SET_ERROR")) = 1

\* every entry of a materialized tree: those of the sequence and those below them
RECURSIVE EntriesIn(_)
EntriesIn(children) ==
  UNION {{children[i]} \cup EntriesIn(children[i].children) : i \in 1..Len(children)}

\* entry i of list E comes before entry j when sorted by size, descending,
\* equal sizes in insertion order
Before(E, i, j) == E[i][2] > E[j][2] \/ (E[i][2] = E[j][2] /\ i < j)

\* the k largest entries of E that do not name the parent p itself, in that order
KLargest(E, p, k) ==
  LET I == {i \in 1..Len(E) : E[i][1] # p}
  IN [r \in 1..Min(k, Cardinality(I)) |->
        E[CHOOSE i \in I : Cardinality({j \in I : Before(E, j, i)}) = r - 1]]

\* the children list ch of the node for path p is the k largest of cache[p]
IsKLargest(cache, p, ch, k) ==
  /\ Len(ch) <= k
  /\ [i \in 1..Len(ch) |-> << ch[i].path, ch[i].size >>] = KLargest(cache[p], p, k)

\* C11: every node collect produces has at most k children, and they are the k
\* largest by size among the path's cache entries, in descending order of size,
\* equal sizes in insertion order, an entry naming the parent itself skipped.
C11_KLargestChildren ==
  call.pc = "ret" /\ tree = MatTree =>
    /\ IsKLargest(call.cache, 1, call.ret, call.count)
    /\ \A e \in EntriesIn(call.ret) :
         tree[e.path].isDir /\ e.path \in DOMAIN call.cache =>
           IsKLargest(call.cache, e.path, e.children, call.count)

Max(a, b) == IF a >= b THEN a ELSE b

\* the deepest nesting in a children list: 0 when empty, 1 for entries without children
RECURSIVE Height(_)
RECURSIVE HeightFrom(_, _)
HeightFrom(children, i) ==
  IF i > Len(children) THEN 0
  ELSE Max(1 + Height(children[i].children), HeightFrom(children, i + 1))
Height(children) == HeightFrom(children, 1)

\* C12: in the snapshot whose root Entry has the children collect(root, cache, k, 0),
\* no node is nested more than MAX_DEPTH levels below the root, however deep the
\* data of the cache goes.
C12_DepthCap ==
  call.pc = "ret" => Height(call.ret) <= MAX_DEPTH

(***************************************************************************)
(* Vocabulary of the layout claims.                                        *)
(***************************************************************************)
\* the calls of create_segments_recursive behind a segment list: the one for
\* the displayed root over the full circle, and one for every segment whose
\* entry has children, over the segment's arc
LayoutCalls(root, segments) ==
  {[entry |-> root, start |-> START, end |-> END]}
    \cup {[entry |-> segments[i].entry, start |-> segments[i].start,
           end |-> FAdd(segments[i].start, segments[i].sweep)] :
             i \in {j \in 1..Len(segments) : segments[j].entry.children # << >>}}

\* the sweep of child k in a call, and the sum of the sweeps of the children before k
SweepOf(c, k) == Sweep(c.entry, c.entry.children[k], c.start, c.end)

RECURSIVE SweepsBefore(_, _)
SweepsBefore(c, k) ==
  IF k = 1 THEN Fin(0, 1) ELSE FAdd(SweepsBefore(c, k - 1), SweepOf(c, k - 1))

\* the segments emitted for the children of a call: those of its entry's paths
SegmentOf(segments, path) == {i \in 1..Len(segments) : segments[i].entry.path = path}

\* the UI thread has just laid out the snapshot of a SET_ENTRY
LaidOut == handled.kind = "SET_ENTRY"

\* C13, first part: a child below the minimum sweep has no segment, and nothing
\* below it has one.
C13_FilteredNotEmitted ==
  LaidOut =>
    \A c \in LayoutCalls(data.entry, chart.segments) :
      \A k \in 1..Len(c.entry.children) :
        BelowMinSweep(SweepOf(c, k)) =>
          \A i \in 1..Len(chart.segments) :
            LET q == chart.segments[i].entry.path IN
              q # c.entry.children[k].path /\ ~IsUnder(tree, q, c.entry.children[k].path)

\* C13, last part: an emitted child starts at the start of its parent's arc
\* plus the sweeps of all the siblings before it.
C13_SiblingStarts ==
  LaidOut =>
    \A c \in LayoutCalls(data.entry, chart.segments) :
      \A k \in 1..Len(c.entry.children) :
        \A i \in SegmentOf(chart.segments, c.entry.children[k].path) :
          chart.segments[i].start = FAdd(c.start, SweepsBefore(c, k))

\* C13: a child whose sweep is below the minimum emits no segment and nothing
\* below it is laid out, the running position still advances by its sweep, and
\* so every later sibling starts at the parent's start plus the sweeps of all
\* the siblings before it.
C13_FilteredChildAdvancesPos ==
  /\ C13_FilteredNotEmitted
  /\ C13_SiblingStarts
  /\ LaidOut =>
       \A c \in LayoutCalls(data.entry, chart.segments) :
         \A k \in 1..Len(c.entry.children) :
           BelowMinSweep(SweepOf(c, k)) =>
             FEq(PosAt(c.entry, c.start, c.end, k + 1),
                 FAdd(PosAt(c.entry, c.start, c.end, k), SweepOf(c, k)))

\* the sum of the sweeps of the segments emitted for the children of a call, from child k on
RECURSIVE EmittedSweeps(_, _, _)
EmittedSweeps(segments, c, k) ==
  IF k > Len(c.entry.children) THEN Fin(0, 1)
  ELSE LET own == SegmentOf(segments, c.entry.children[k].path)
           rest == EmittedSweeps(segments, c, k + 1)
       IN IF own = {} THEN rest
          ELSE FAdd(segments[CHOOSE i \in own : TRUE].sweep, rest)

\* the children of a call that the minimum-sweep filter dropped
Filtered(c) == {k \in 1..Len(c.entry.children) : BelowMinSweep(SweepOf(c, k))}

\* C14: for every node laid out from a published snapshot, the sweeps of its
\* emitted children sum to at most the node's allotted sweep, and to exactly
\* that only when none of its children fell below the minimum-sweep filter.
C14_AngularClosure ==
  LaidOut =>
    \A c \in LayoutCalls(data.entry, chart.segments) :
      LET sum == EmittedSweeps(chart.segments, c, 1)
          allotted == FSub(c.end, c.start)
      IN /\ FLe(sum, allotted)
         /\ FEq(sum, allotted) => Filtered(c) = {}

(***************************************************************************)
(* Vocabulary of the navigation claims.                                    *)
(***************************************************************************)
\* the step starts a scan: start_worker spawns a thread
ScanStarts == \E i \in Scans : w[i].pc = "unborn" /\ w'[i].pc # "unborn"

\* C15: when a new scan has been started, by REQUEST_SCAN or by
\* REQUEST_REFRESH, the navigation stack is empty, so that the entry on display
\* is the scan root.
C15_ScanClearsNavigation ==
  [][ScanStarts => chart'.expand = << >> /\ Front(chart', data') = data'.entry]_vars

(***************************************************************************)
(* Vocabulary of the hit-test claim.                                       *)
(***************************************************************************)
\* cursor positions the test is tried on: inside, on and around the center
\* circle, in the rings on the axes and a diagonal, on their rims, the corner
HitPoints ==
  {Pt(0, 0), Pt(28, 28), Pt(40, 0), Pt(0, -40),
   Pt(50, 0), Pt(0, 50), Pt(-50, 0), Pt(0, -50), Pt(36, 36), Pt(36, -36), Pt(60, 0),
   Pt(70, 0), Pt(0, -70), Pt(-70, 0), Pt(80, 0), Pt(90, 0), Origin}

\* what a step that changes the hover state leaves behind
PaintOk ==
  /\ chart'.hovered_center # chart.hovered_center =>
       chart'.hovered_center = InCenter(chart'.cursor)
  /\ chart'.hovered_entry # chart.hovered_entry /\ chart'.hovered_entry # None =>
       LET hits == Hits(chart'.segments, chart'.cursor) IN
         IF chart'.hovered_center
           THEN hits = {} /\ chart'.hovered_entry = Some(Front(chart', data'))
           ELSE \E i \in hits :
                  hits = {i} /\ chart'.hovered_entry = Some(chart'.segments[i].entry)

\* C16: for any cursor position the hit test yields the center, one segment or
\* nothing: strictly inside the center circle no segment passes the test, and
\* paint sets hovered_center; outside the circle at most one segment of the
\* list on display passes the radius-and-angle test, and it is the hovered one.
C16_HitTestExclusive ==
  /\ [](\A p \in HitPoints \cup {chart.cursor} :
          /\ Hypot2(p) < CENTER_RADIUS * CENTER_RADIUS =>
               InCenter(p) /\ Hits(chart.segments, p) = {}
          /\ ~InCenter(p) => Cardinality(Hits(chart.segments, p)) <= 1)
  /\ [][PaintOk]_vars

\* paint has found the one segment under the cursor, among segments of other
\* rings that span the cursor's angle too
C16_Witness ==
  /\ ~chart.hovered_center
  /\ \E i \in Hits(chart.segments, chart.cursor) :
       /\ chart.hovered_entry = Some(chart.segments[i].entry)
       /\ \E j \in 1..Len(chart.segments) :
            /\ j # i
            /\ FLe(chart.segments[j].start, Angle(chart.cursor))
            /\ FLt(Angle(chart.cursor), FAdd(chart.segments[j].start, chart.segments[j].sweep))


\* every child of the entry gets at least the minimum sweep out of the full
\* circle: size / entry.size * 2*pi >= 0.01
AllAboveMinSweep(entry) ==
  /\ entry.size > 0
  /\ \A k \in 1..Len(entry.children) : 71000 * entry.children[k].size >= 113 * entry.size

\* the sizes of the children before child k
RECURSIVE SizesBefore(_, _)
SizesBefore(entry, k) ==
  IF k = 1 THEN 0 ELSE SizesBefore(entry, k - 1) + entry.children[k - 1].size

\* C17: when every child of the root is above the minimum sweep, the layout
\* over the full circle gives child i one segment in the first ring with sweep
\* size_i / size_root of the circle, starting at the sum of the sweeps of the
\* children before it, the children being in size-descending order.
C17_LayoutSweeps ==
  LaidOut /\ AllAboveMinSweep(data.entry) =>
    LET root == data.entry IN
      \A k \in 1..Len(root.children) :
        /\ k > 1 => root.children[k - 1].size >= root.children[k].size
        /\ \E i \in 1..Len(chart.segments) :
             /\ SegmentOf(chart.segments, root.children[k].path) = {i}
             /\ chart.segments[i].entry = root.children[k]
             /\ chart.segments[i].outer = OUTER /\ chart.segments[i].inner = INNER
             /\ chart.segments[i].sweep = Fin(root.children[k].size, root.size)
             /\ chart.segments[i].start = Fin(SizesBefore(root, k), root.size)

\* root of size 4 with A of size 3 and B of size 1 laid out: A takes three
\* quarters of the circle from 0, B the last quarter
C17_Witness ==
  /\ LaidOut
  /\ data.entry.size = 4 /\ Len(data.entry.children) = 2
  /\ data.entry.children[1].size = 3 /\ data.entry.children[2].size = 1
  /\ \E i, j \in 1..Len(chart.segments) :
       /\ chart.segments[i].entry = data.entry.children[1]
       /\ chart.segments[i].start = Fin(0, 1) /\ chart.segments[i].sweep = Fin(3, 4)
       /\ chart.segments[j].entry = data.entry.children[2]
       /\ chart.segments[j].start = Fin(3, 4) /\ chart.segments[j].sweep = Fin(1, 4)

\* what one step does to the navigation stack: a click grows it at the front
\* by the hovered entry, shortens it at the front with the center hovered, or
\* leaves it; the chart then shows the layout of the front element, or of the
\* scan root when the stack is empty; no other step does more than empty it
NavigationStep ==
  LET s == chart.expand
      t == chart'.expand
  IN IF ui'.clicks # ui.clicks
       THEN /\ \/ t = s
               \/ /\ chart.accept /\ ~chart.hovered_center /\ chart.hovered_entry # None
                  /\ t = << chart.hovered_entry[1] >> \o s
                  /\ Front(chart', data') = chart.hovered_entry[1]
               \/ /\ chart.accept /\ chart.hovered_center /\ s # << >>
                  /\ t = Tail(s)
                  /\ Front(chart', data') = IF Len(s) >= 2 THEN s[2] ELSE data.entry
            /\ chart.accept /\ chart.hovered_center /\ s = << >> => t = << >>
            /\ chart'.segments # chart.segments \/ t # s =>
                 chart'.segments = refresh_segments(tree, Front(chart', data'))
       ELSE t = s \/ t = << >>

\* C18: the navigation stack is a stack with the scan root as default: expand
\* pushes the hovered entry to the front, collapse pops the front, the entry on
\* display is the front element or the scan root when the stack is empty,
\* collapse on an empty stack leaves it empty, and an expand followed by a
\* collapse restores the entry that was on display.
C18_NavigationStack ==
  /\ [][NavigationStep]_vars
  /\ [](\A i \in 1..Len(chart.segments) :
          LET e == chart.segments[i].entry
              back == [chart EXCEPT !.expand = pop_front(push_front(@, e))]
          IN /\ Front([chart EXCEPT !.expand = push_front(@, e)], data) = e
             /\ back.expand = chart.expand
             /\ Front(back, data) = Front(chart, data))
  /\ [](chart.expand = << >> => pop_front(chart.expand) = << >> /\ Front(chart, data) = data.entry)

\* with no request made since the first scan, an entry was expanded, the center
\* then showed "Right-click to go back", and the second click has collapsed the
\* stack again: the scan root is back on display
C18_Witness ==
  /\ nreq = 0 /\ ui.clicks = 2 /\ chart.accept
  /\ data.expand = "Right-click to go back"
  /\ chart.expand = << >>
  /\ Front(chart, data) = data.entry
  /\ chart.segments = refresh_segments(tree, data.entry)

\* the sum of the sizes of the files among the <<path, size>> pairs of one cache vector
RECURSIVE FileSizesIn(_, _)
FileSizesIn(t, items) ==
  IF items = << >> THEN 0
  ELSE (IF t[Head(items)[1]].isDir THEN 0 ELSE Head(items)[2]) + FileSizesIn(t, Tail(items))

\* the sum of the sizes of the files in the cache, over the keys from p on
RECURSIVE CacheFileSizesFrom(_, _, _)
CacheFileSizesFrom(t, cache, p) ==
  IF p > Len(t) THEN 0
  ELSE (IF p \in DOMAIN cache THEN FileSizesIn(t, cache[p]) ELSE 0)
       + CacheFileSizesFrom(t, cache, p + 1)

\* the events the callback recorded, directories included, are what the cache holds
RECURSIVE CacheLenFrom(_, _, _)
CacheLenFrom(t, cache, p) ==
  IF p > Len(t) THEN 0
  ELSE (IF p \in DOMAIN cache THEN Len(cache[p]) ELSE 0) + CacheLenFrom(t, cache, p + 1)

RecordedEvents(evs) == {k \in 1..Len(evs) : evs[k].recorded}

\* the scan of worker i has completed: the scanner returned (total, true)
Completed(i) == Finished(i) /\ w[i].result.tag = "ok" /\ w[i].result.full

\* C19: at every point of a scan the worker's running total is the sum of the
\* sizes of the file events recorded in the cache, directory events being in
\* the cache but not in the total; so the final snapshot of a scan that
\* completed has the total returned by the scanner as its root size.
C19_TotalIsRecordedFileSum ==
  \A i \in Scans :
    /\ w[i].total = RecordedFileSizes(w[i].events)
    /\ w[i].total = CacheFileSizesFrom(tree, w[i].cache, 1)
    /\ CacheLenFrom(tree, w[i].cache, 1) = Cardinality(RecordedEvents(w[i].events))
    /\ \A k \in RecordedEvents(w[i].events) :
         LET ev == w[i].events[k] IN
           /\ ev.parent \in DOMAIN w[i].cache
           /\ \E n \in 1..Len(w[i].cache[ev.parent]) :
                w[i].cache[ev.parent][n] = << ev.path, ev.size >>
    /\ Completed(i) =>
         /\ w[i].total = w[i].result.total
         /\ w[i].pc # "final_entry" =>
              LET last == w[i].pubs[CHOOSE k \in PubsOf(i, "SET_ENTRY") :
                                      \A j \in PubsOf(i, "SET_ENTRY") : j <= k]
              IN last.cmd.val.size = w[i].result.total

\* a completed scan that recorded a directory of size > 0 next to files has
\* published its final snapshot
C19_Witness ==
  \E i \in Scans :
    /\ Completed(i) /\ w[i].pc = "done"
    /\ w[i].total > 0
    /\ \E k \in RecordedEvents(w[i].events) :
         w[i].events[k].is_dir /\ w[i].events[k].size > 0

\* the sum of the sizes of the entries of a children list
RECURSIVE ChildSizes(_)
ChildSizes(children) ==
  IF children = << >> THEN 0 ELSE Head(children).size + ChildSizes(Tail(children))

\* every node of the entry is at least as large as its children together
RECURSIVE SizeCoversChildren(_)
SizeCoversChildren(entry) ==
  /\ entry.size >= ChildSizes(entry.children)
  /\ \A k \in 1..Len(entry.children) : SizeCoversChildren(entry.children[k])

\* C20: in every published snapshot, progress or final, every node's size is
\* at least the sum of the sizes of its materialized children, the root
\* included, whose size is the worker's running total.
C20_SizeCoversChildren ==
  /\ \A i \in Scans :
       \A k \in PubsOf(i, "SET_ENTRY") :
         LET pub == w[i].pubs[k] IN
           /\ pub.cmd.val.size = pub.total
           /\ SizeCoversChildren(pub.cmd.val)
  /\ SizeCoversChildren(data.entry)

\* a published snapshot whose root is larger than its children together: the
\* files of a directory whose own event has not come are in the total only
C20_Witness ==
  \E i \in Scans :
    \E k \in PubsOf(i, "SET_ENTRY") :
      LET e == w[i].pubs[k].cmd.val IN
        /\ e.children # << >>
        /\ e.size > ChildSizes(e.children)
        /\ ChildSizes(e.children) > 0

\* the angle a segment ends at, and its radius band
SegEnd(v) == FAdd(v.start, v.sweep)
SameBand(a, b) == a.inner = b.inner /\ a.outer = b.outer

\* the intervals [start, start + sweep) of two segments have an angle in common
Overlap(a, b) == FLt(a.start, SegEnd(b)) /\ FLt(b.start, SegEnd(a))

\* segment j is the segment of a child of the entry of segment i
NestedIn(segments, j, i) ==
  \E k \in 1..Len(segments[i].entry.children) :
    segments[i].entry.children[k].path = segments[j].entry.path

\* C21, first part: no two segments of one radius band overlap.
C21_DisjointInBand ==
  \A i, j \in 1..Len(chart.segments) :
    i # j /\ SameBand(chart.segments[i], chart.segments[j]) =>
      ~Overlap(chart.segments[i], chart.segments[j])

\* C21, the ring of a nested entry: the radii of its parent's segment plus 20.
C21_NestedInNextRing ==
  \A i, j \in 1..Len(chart.segments) :
    NestedIn(chart.segments, j, i) =>
      /\ chart.segments[j].inner = chart.segments[i].inner + RING
      /\ chart.segments[j].outer = chart.segments[i].outer + RING

\* C21: in a laid-out segment list no two segments of the same radius band have
\* overlapping angular intervals [start, start + sweep), and the segment of a
\* nested entry lies in the next ring (radii + 20) within the angular interval
\* of its parent's segment.
C21_SegmentsDisjointAndNested ==
  /\ C21_DisjointInBand
  /\ C21_NestedInNextRing
  /\ \A i, j \in 1..Len(chart.segments) :
       NestedIn(chart.segments, j, i) =>
         /\ FLe(chart.segments[i].start, chart.segments[j].start)
         /\ FLe(SegEnd(chart.segments[j]), SegEnd(chart.segments[i]))

\* C22: whenever the navigation stack is non-empty, the segment list is the
\* layout of the entry at the front of the stack, whatever scans, refreshes,
\* snapshots and clicks came before.
C22_SegmentsShowFront ==
  chart.expand # << >> => chart.segments = refresh_segments(tree, Head(chart.expand))

\* the scan started last is under way for the UI: its NOTIFY_SCAN_FINISH is not
\* yet published, or is still waiting in the sink queue
FinishPending(i) ==
  \/ PubsOf(i, "NOTIFY_SCAN_FINISH") = {}
  \/ \E k \in 1..Len(queue) : queue[k].kind = "NOTIFY_SCAN_FINISH" /\ queue[k].scan = i

ScanUnderWay == Started >= 1 /\ FinishPending(Started)

\* C23: from the start of a scan to the handling of that scan's
\* NOTIFY_SCAN_FINISH, Chart.accept is false, and a mouse-up changes neither
\* the navigation stack nor the segment list.
C23_NoNavigationDuringScan ==
  /\ [](ScanUnderWay => ~chart.accept)
  /\ [][ScanUnderWay /\ ui'.clicks # ui.clicks =>
          chart'.expand = chart.expand /\ chart'.segments = chart.segments]_vars

\* C24: every entry of a published snapshot that is laid out with a non-empty
\* children list has a size greater than 0, so the division by the parent's
\* size has no zero denominator, and every emitted segment has a defined sweep
\* of at least the minimum.
C24_NoZeroDenominator ==
  LaidOut =>
    /\ \A c \in LayoutCalls(data.entry, chart.segments) :
         c.entry.children # << >> => c.entry.size > 0
    /\ \A i \in 1..Len(chart.segments) :
         /\ chart.segments[i].sweep.k = "fin"
         /\ ~BelowMinSweep(chart.segments[i].sweep)

====
